---------------------------- MODULE Spec2Model ----------------------------
(***************************************************************************)
(* A model of src/src/lib/customjson.ts: the Double marker, markAsDouble,  *)
(* escapeString, serializeValue, prettyPrint and stringify.                *)
(*                                                                         *)
(* A text is a sequence of UTF-16 code units (naturals), so escaping, hex  *)
(* formatting and number rendering are computed, not assumed.              *)
(* A value is a record tagged by t:                                        *)
(*   undefined, function, symbol, null, boolean(b), string(s), number(n),  *)
(*   Double(n, custom)   a Number object carrying DOUBLE_MARKER; custom    *)
(*                       says the wrapper was also given a toJSON method,  *)
(*   Date(y, mo, d)      a valid Date at midnight UTC,                     *)
(*   toJSON(r)           an object whose toJSON() returns r,               *)
(*   array(items)        items may hold the marker Hole (a sparse array),  *)
(*   object(keys, vals)  own enumerable string keys in definition order.   *)
(* A number n is [cls, neg, digits, e]: cls is "nan", "inf", "zero" or     *)
(* "fin"; for "fin" the value is 0.d1..dk * 10^e with d1 # 0 and dk # 0    *)
(* (the k, n, s of ECMAScript's Number::toString).                         *)
(***************************************************************************)
EXTENDS Integers, Sequences, FiniteSets, TLC

VARIABLES
    value,       \* stringify's argument `value`
    space,       \* stringify's argument `space`
    pc,          \* position in stringify / prettyPrint / markAsDouble
    serialized,  \* stringify's local `serialized`
    indent,      \* stringify's local `indent`, prettyPrint's parameter
    i,           \* prettyPrint's loop index (1-based)
    depth,       \* prettyPrint's local `depth`
    inString,    \* prettyPrint's local `inString`
    result,      \* prettyPrint's local `result`, joined
    out,         \* what stringify returned (or threw)
    heap,        \* markAsDouble: the objects that exist, by reference
    argKeys,     \* markAsDouble's rest parameter `keys`
    k,           \* markAsDouble's position in `keys` (1-based)
    ret,         \* markAsDouble: the reference it returned (0: not yet)
    calls,       \* markAsDouble: completed calls on the object
    before,      \* markAsDouble: the object as it was when the call began
    afterFirst   \* markAsDouble: the object as the first call left it

vars == <<value, space, pc, serialized, indent, i, depth, inString, result,
          out, heap, argKeys, k, ret, calls, before, afterFirst>>

stringifyVars == <<value, space, pc, serialized, indent, i, depth, inString,
                   result, out>>
markVars == <<heap, argKeys, k, ret, calls, before, afterFirst>>

---------------------------------------------------------------------------
(* Code units the program names.                                           *)
QUOTE == 34
BACKSLASH == 92
BS == 8
FF == 12
LF == 10
CR == 13
TAB == 9
LBRACE == 123
RBRACE == 125
LBRACKET == 91
RBRACKET == 93
COMMA == 44
COLON == 58
SP == 32
LastControl == 31
MaxSpaces == 10
MaxIndentChars == 10

(* Code units of the texts the runtime's String(num) and toISOString give. *)
ZERO == 48
DOT == 46
MINUS == 45
PLUS == 43
LowerE == 101
LowerA == 97
LowerU == 117
UpperT == 84
UpperZ == 90

T_null == <<110, 117, 108, 108>>
T_true == <<116, 114, 117, 101>>
T_false == <<102, 97, 108, 115, 101>>

(* json[i] with JavaScript's out-of-range answer (undefined) as -1.        *)
CharAt(s, n) == IF n >= 1 /\ n <= Len(s) THEN s[n] ELSE -1

RECURSIVE Repeat(_, _)
Repeat(s, n) == IF n <= 0 THEN <<>> ELSE s \o Repeat(s, n - 1)

Min(a, b) == IF a <= b THEN a ELSE b

(* The concatenation of ss[lo..hi], by halves (the recursion stays         *)
(* shallow on long texts).                                                 *)
RECURSIVE ConcatRange(_, _, _)
ConcatRange(ss, lo, hi) ==
    IF lo > hi THEN <<>>
    ELSE IF lo = hi THEN ss[lo]
    ELSE LET mid == (lo + hi) \div 2
         IN  ConcatRange(ss, lo, mid) \o ConcatRange(ss, mid + 1, hi)

Concat(ss) == ConcatRange(ss, 1, Len(ss))

---------------------------------------------------------------------------
(* Number values.                                                          *)
NaN == [cls |-> "nan", neg |-> FALSE, digits |-> <<>>, e |-> 0]
Infinity(neg) == [cls |-> "inf", neg |-> neg, digits |-> <<>>, e |-> 0]
Zero(neg) == [cls |-> "zero", neg |-> neg, digits |-> <<>>, e |-> 0]
Fin(neg, ds, e) == [cls |-> "fin", neg |-> neg, digits |-> ds, e |-> e]

(* Numbers and their text: String(num), template `${num}`.                 *)

RECURSIVE DecDigits(_)
DecDigits(n) == IF n < 10 THEN <<ZERO + n>>
                ELSE DecDigits(n \div 10) \o <<ZERO + (n % 10)>>

DigitChars(ds) == [j \in 1..Len(ds) |-> ZERO + ds[j]]

isFinite(n) == n.cls \in {"zero", "fin"}

NumberIsInteger(n) ==
    \/ n.cls = "zero"
    \/ n.cls = "fin" /\ n.e >= Len(n.digits)

(* ECMAScript Number::toString(x, 10).                                     *)
NumberToString(n) ==
    LET kk == Len(n.digits)
        ds == DigitChars(n.digits)
        sign == IF n.neg THEN <<MINUS>> ELSE <<>>
        ex == n.e - 1
        expo == <<LowerE>> \o (IF ex >= 0 THEN <<PLUS>> ELSE <<MINUS>>)
                \o DecDigits(IF ex >= 0 THEN ex ELSE -ex)
    IN  CASE n.cls = "nan" -> <<78, 97, 78>>
          [] n.cls = "inf" -> sign \o <<73, 110, 102, 105, 110, 105, 116, 121>>
          [] n.cls = "zero" -> <<ZERO>>
          [] OTHER ->
             sign \o
             (IF kk <= n.e /\ n.e <= 21
                THEN ds \o Repeat(<<ZERO>>, n.e - kk)
              ELSE IF 0 < n.e /\ n.e <= 21
                THEN SubSeq(ds, 1, n.e) \o <<DOT>> \o SubSeq(ds, n.e + 1, kk)
              ELSE IF -6 < n.e /\ n.e <= 0
                THEN <<ZERO, DOT>> \o Repeat(<<ZERO>>, -n.e) \o ds
              ELSE IF kk = 1
                THEN ds \o expo
              ELSE <<ds[1], DOT>> \o SubSeq(ds, 2, kk) \o expo)

---------------------------------------------------------------------------
(* String escaping.                                                        *)

ESCAPE_MAP ==
    [c \in {QUOTE, BACKSLASH, BS, FF, LF, CR, TAB} |->
        CASE c = QUOTE -> <<BACKSLASH, QUOTE>>
          [] c = BACKSLASH -> <<BACKSLASH, BACKSLASH>>
          [] c = BS -> <<BACKSLASH, 98>>
          [] c = FF -> <<BACKSLASH, 102>>
          [] c = LF -> <<BACKSLASH, 110>>
          [] c = CR -> <<BACKSLASH, 114>>
          [] c = TAB -> <<BACKSLASH, 116>>]

HexDigit(d) == IF d < 10 THEN ZERO + d ELSE LowerA + (d - 10)

RECURSIVE ToHex(_)
ToHex(n) == IF n < 16 THEN <<HexDigit(n)>>
            ELSE ToHex(n \div 16) \o <<HexDigit(n % 16)>>

PadStart(s, n, c) == Repeat(<<c>>, n - Len(s)) \o s

(* The replacement the regex callback gives one matched character.         *)
EscapeChar(c) ==
    IF c \in DOMAIN ESCAPE_MAP
      THEN ESCAPE_MAP[c]
      ELSE <<BACKSLASH, LowerU>> \o PadStart(ToHex(c), 4, ZERO)

(* /["\\\u0000-\u001F]/ *)
NeedsEscape(c) == c = QUOTE \/ c = BACKSLASH \/ (c >= 0 /\ c <= LastControl)

escapeString(str) ==
    Concat([j \in 1..Len(str) |->
              IF NeedsEscape(str[j]) THEN EscapeChar(str[j]) ELSE <<str[j]>>])

Quoted(s) == <<QUOTE>> \o s \o <<QUOTE>>

---------------------------------------------------------------------------
(* Values as serializeValue inspects them.                                 *)

Hole == [t |-> "hole"]
IsHole(x) == x.t = "hole"

TypeOf(v) ==
    CASE v.t = "undefined" -> "undefined"
      [] v.t = "function" -> "function"
      [] v.t = "symbol" -> "symbol"
      [] v.t = "boolean" -> "boolean"
      [] v.t = "string" -> "string"
      [] v.t = "number" -> "number"
      [] OTHER -> "object"    \* null, Double, Date, toJSON, array, object

(* Double(n): Object(n) with obj[DOUBLE_MARKER] = true.                    *)
Double(n) == [t |-> "Double", n |-> n, custom |-> FALSE]

isDoubleNumber(v) == TypeOf(v) = "object" /\ v.t # "null" /\ v.t = "Double"

InstanceOfDate(v) == v.t = "Date"

(* typeof obj.toJSON === 'function' *)
HasToJSON(v) == v.t = "toJSON" \/ (v.t = "Double" /\ v.custom)

(* What a toJSON method given to a Double wrapper returns in this model.   *)
CustomResult == [t |-> "string", s |-> <<LowerA>>]

ToJSONResult(v) == IF v.t = "toJSON" THEN v.r ELSE CustomResult

ArrayIsArray(v) == v.t = "array"

(* Object.keys(value): a Number object or a Date has none; an object whose *)
(* toJSON is an own property has that one key.                             *)
ObjectKeys(v) ==
    CASE v.t = "object" -> v.keys
      [] v.t = "toJSON" -> << <<116, 111, 74, 83, 79, 78>> >>
      [] OTHER -> <<>>

PropertyAt(v, j) ==
    CASE v.t = "object" -> v.vals[j]
      [] OTHER -> [t |-> "function"]

Pad(n, w) == PadStart(DecDigits(n), w, ZERO)

(* Date.prototype.toISOString of a valid date at midnight UTC.             *)
toISOString(v) ==
    Pad(v.y, 4) \o <<MINUS>> \o Pad(v.mo, 2) \o <<MINUS>> \o Pad(v.d, 2)
    \o <<UpperT>> \o Pad(0, 2) \o <<COLON>> \o Pad(0, 2) \o <<COLON>>
    \o Pad(0, 2) \o <<DOT>> \o Pad(0, 3) \o <<UpperZ>>

---------------------------------------------------------------------------
(* serializeValue: a text, or undefined (ok = FALSE).                      *)

Undefined == [ok |-> FALSE, text |-> <<>>]
Text(s) == [ok |-> TRUE, text |-> s]

(* A dispatch that looks for toJSON before it looks for the marker.        *)
Branch_ToJSONFirst(v) ==
    IF v.t = "undefined" \/ TypeOf(v) = "function" \/ TypeOf(v) = "symbol"
      THEN "omit"
    ELSE IF v.t = "null" THEN "null"
    ELSE IF TypeOf(v) = "boolean" THEN "boolean"
    ELSE IF TypeOf(v) = "string" THEN "string"
    ELSE IF TypeOf(v) = "number" THEN "number"
    ELSE IF InstanceOfDate(v) THEN "date"
    ELSE IF HasToJSON(v) THEN "toJSON"
    ELSE IF isDoubleNumber(v) THEN "double"
    ELSE IF ArrayIsArray(v) THEN "array"
    ELSE IF TypeOf(v) = "object" THEN "object"
    ELSE "fallback"

(* Which `if` of serializeValue returns for v, in the order of the code.   *)
Branch(v) ==
    IF v.t = "undefined" \/ TypeOf(v) = "function" \/ TypeOf(v) = "symbol"
      THEN "omit"
    ELSE IF v.t = "null" THEN "null"
    ELSE IF TypeOf(v) = "boolean" THEN "boolean"
    ELSE IF TypeOf(v) = "string" THEN "string"
    ELSE IF isDoubleNumber(v) THEN "double"
    ELSE IF TypeOf(v) = "number" THEN "number"
    ELSE IF InstanceOfDate(v) THEN "date"
    ELSE IF HasToJSON(v) THEN "toJSON"
    ELSE IF ArrayIsArray(v) THEN "array"
    ELSE IF TypeOf(v) = "object" THEN "object"
    ELSE "fallback"

(* The Double branch, given num = value.valueOf().                         *)
serializeDouble(num) ==
    IF ~isFinite(num) THEN T_null
    ELSE IF NumberIsInteger(num) THEN NumberToString(num) \o <<DOT, ZERO>>
    ELSE NumberToString(num)

(* The plain number branch.                                                *)
serializeNumber(num) ==
    IF ~isFinite(num) THEN T_null ELSE NumberToString(num)

(* Array.prototype.join: holes and undefined give the empty string.        *)
RECURSIVE JoinFrom(_, _, _)
JoinFrom(items, j, sep) ==
    IF j > Len(items) THEN <<>>
    ELSE (IF j > 1 THEN sep ELSE <<>>)
         \o (IF items[j].ok THEN items[j].text ELSE <<>>)
         \o JoinFrom(items, j + 1, sep)

Join(items, sep) == JoinFrom(items, 1, sep)

(* `serializeValue(item) ?? 'null'` *)
OrNull(r) == IF r.ok THEN r ELSE Text(T_null)

(* .filter(pair => pair !== null) *)
FilterPairs(pairs) == SelectSeq(pairs, LAMBDA p : p.ok)

RECURSIVE serializeValue(_)
(* value.map(item => ...): the callback is not called for a hole, and the  *)
(* hole stays a hole in the mapped array.                                  *)
MapItems(items) ==
    [j \in 1..Len(items) |->
        IF IsHole(items[j]) THEN Undefined
        ELSE OrNull(serializeValue(items[j]))]

(* keys.map(key => ...): null for a skipped pair.                          *)
MapPairs(v, keys) ==
    [j \in 1..Len(keys) |->
        LET serializedValue == serializeValue(PropertyAt(v, j))
        IN  IF ~serializedValue.ok THEN Undefined
            ELSE Text(Quoted(escapeString(keys[j])) \o <<COLON>>
                      \o serializedValue.text)]

serializeValue(v) ==
    LET b == Branch(v)
    IN  CASE b = "omit" -> Undefined
          [] b = "null" -> Text(T_null)
          [] b = "boolean" -> Text(IF v.b THEN T_true ELSE T_false)
          [] b = "string" -> Text(Quoted(escapeString(v.s)))
          [] b = "double" -> Text(serializeDouble(v.n))
          [] b = "number" -> Text(serializeNumber(v.n))
          [] b = "date" -> Text(Quoted(toISOString(v)))
          [] b = "toJSON" -> serializeValue(ToJSONResult(v))
          [] b = "array" ->
             Text(<<LBRACKET>> \o Join(MapItems(v.items), <<COMMA>>)
                  \o <<RBRACKET>>)
          [] b = "object" ->
             Text(<<LBRACE>>
                  \o Join(FilterPairs(MapPairs(v, ObjectKeys(v))), <<COMMA>>)
                  \o <<RBRACE>>)
          [] OTHER -> Undefined

---------------------------------------------------------------------------
(* prettyPrint: one loop iteration per step. A scan state st is            *)
(* [i, depth, inString, result]; result is the joined `result` array.      *)

ScanStart == [i |-> 1, depth |-> 0, inString |-> FALSE, result |-> <<>>]

(* Which `if` of the loop body handles json[st.i], in the code's order.    *)
PPBranch(json, st) ==
    LET char == json[st.i]
    IN  IF st.inString THEN "inString"
        ELSE IF char = QUOTE THEN "startString"
        ELSE IF char = LBRACE \/ char = LBRACKET THEN "open"
        ELSE IF char = RBRACE \/ char = RBRACKET THEN "close"
        ELSE IF char = COMMA THEN "comma"
        ELSE IF char = COLON THEN "colon"
        ELSE "regular"

(* A scanner that forgets escapes: a backslash is copied like any other    *)
(* character, so the quote it escapes ends the string.                     *)
StepInString_NoEscape(json, ind, st) ==
    IF json[st.i] = QUOTE
      THEN [st EXCEPT !.result = @ \o <<json[st.i]>>, !.inString = FALSE,
                      !.i = @ + 1]
      ELSE [st EXCEPT !.result = @ \o <<json[st.i]>>, !.i = @ + 1]

(* Inside a string: copy; after a backslash copy json[++i] too (pushing    *)
(* undefined, past the end, joins as nothing); a quote ends the string.    *)
StepInString(json, ind, st) ==
    LET char == json[st.i]
    IN  IF char = BACKSLASH
          THEN [st EXCEPT !.result = @ \o <<char>>
                              \o (IF st.i + 1 <= Len(json)
                                    THEN <<json[st.i + 1]>> ELSE <<>>),
                          !.i = @ + 2]
        ELSE IF char = QUOTE
          THEN [st EXCEPT !.result = @ \o <<char>>, !.inString = FALSE,
                          !.i = @ + 1]
        ELSE [st EXCEPT !.result = @ \o <<char>>, !.i = @ + 1]

StepStartString(json, ind, st) ==
    [st EXCEPT !.inString = TRUE, !.result = @ \o <<json[st.i]>>, !.i = @ + 1]

(* A scanner that opens an indented block for empty composites too.        *)
StepOpen_AlwaysIndents(json, ind, st) ==
    [st EXCEPT !.result = @ \o <<json[st.i], LF>> \o Repeat(ind, st.depth + 1),
               !.depth = @ + 1, !.i = @ + 1]

StepOpen(json, ind, st) ==
    LET nextChar == CharAt(json, st.i + 1)
    IN  IF nextChar # RBRACE /\ nextChar # RBRACKET
          THEN [st EXCEPT !.result = @ \o <<json[st.i], LF>>
                              \o Repeat(ind, st.depth + 1),
                          !.depth = @ + 1, !.i = @ + 1]
          ELSE [st EXCEPT !.result = @ \o <<json[st.i]>>, !.i = @ + 1]

StepClose(json, ind, st) ==
    LET prevChar == CharAt(json, st.i - 1)
    IN  IF prevChar # LBRACE /\ prevChar # LBRACKET
          THEN [st EXCEPT !.result = @ \o <<LF>> \o Repeat(ind, st.depth - 1)
                              \o <<json[st.i]>>,
                          !.depth = @ - 1, !.i = @ + 1]
          ELSE [st EXCEPT !.result = @ \o <<json[st.i]>>, !.i = @ + 1]

(* A scanner that replaces the comma by the line break.                    *)
StepComma_Dropped(json, ind, st) ==
    [st EXCEPT !.result = @ \o <<LF>> \o Repeat(ind, st.depth), !.i = @ + 1]

StepComma(json, ind, st) ==
    [st EXCEPT !.result = @ \o <<COMMA, LF>> \o Repeat(ind, st.depth),
               !.i = @ + 1]

StepColon(json, ind, st) ==
    [st EXCEPT !.result = @ \o <<COLON, SP>>, !.i = @ + 1]

StepRegular(json, ind, st) ==
    [st EXCEPT !.result = @ \o <<json[st.i]>>, !.i = @ + 1]

PPStep(json, ind, st) ==
    LET b == PPBranch(json, st)
    IN  CASE b = "inString" -> StepInString(json, ind, st)
          [] b = "startString" -> StepStartString(json, ind, st)
          [] b = "open" -> StepOpen(json, ind, st)
          [] b = "close" -> StepClose(json, ind, st)
          [] b = "comma" -> StepComma(json, ind, st)
          [] b = "colon" -> StepColon(json, ind, st)
          [] OTHER -> StepRegular(json, ind, st)

(* The loop over the positions lo..hi, from the scan state st: the steps   *)
(* in order, each at the position st.i has reached (a step after a         *)
(* backslash passes over the next position). Split by halves so that the   *)
(* recursion stays shallow.                                                *)
RECURSIVE PPRun(_, _, _)
PPRun(json, ind, st) ==
    IF st.i > Len(json) THEN st ELSE PPRun(json, ind, PPStep(json, ind, st))

(* The whole function: result.join('').                                    *)
prettyPrint(json, ind) == PPRun(json, ind, ScanStart).result

---------------------------------------------------------------------------
(* stringify's `space` parameter: undefined, null, a number (held in       *)
(* halves, so that 0.5 is a value) or a string.                            *)

SpaceNumber(h) == [t |-> "number", halves |-> h, s |-> <<>>]
SpaceString(s) == [t |-> "string", halves |-> 0, s |-> s]
SpaceUndefined == [t |-> "undefined", halves |-> 0, s |-> <<>>]
SpaceNull == [t |-> "null", halves |-> 0, s |-> <<>>]

(* `!space` *)
Falsy(sp) ==
    \/ sp.t \in {"undefined", "null"}
    \/ sp.t = "number" /\ sp.halves = 0
    \/ sp.t = "string" /\ sp.s = <<>>

(* ToIntegerOrInfinity of h/2: truncation toward zero.                     *)
Trunc(h) == IF h >= 0 THEN h \div 2 ELSE -((-h) \div 2)

(* Math.min(space, 10), in halves.                                         *)
MinSpace(h) == Min(h, 2 * MaxSpaces)

(* ' '.repeat(count) throws RangeError for a negative count.               *)
RepeatThrows(sp) == sp.t = "number" /\ Trunc(MinSpace(sp.halves)) < 0

(* The indent string of lines 350-353, when repeat does not throw.         *)
IndentOf(sp) ==
    IF sp.t = "number"
      THEN Repeat(<<SP>>, Trunc(MinSpace(sp.halves)))
      ELSE SubSeq(sp.s, 1, Min(Len(sp.s), MaxIndentChars))

Returned(r) == [kind |-> IF r.ok THEN "string" ELSE "undefined",
                text |-> r.text]
Thrown == [kind |-> "RangeError", text |-> <<>>]
NotYet == [kind |-> "none", text |-> <<>>]

Cur == [i |-> i, depth |-> depth, inString |-> inString, result |-> result]

SetScan(st) ==
    /\ i' = st.i
    /\ depth' = st.depth
    /\ inString' = st.inString
    /\ result' = st.result

(* const serialized = serializeValue(value) *)
Serialize ==
    /\ pc = "start"
    /\ serialized' = serializeValue(value)
    /\ pc' = "serialized"
    /\ UNCHANGED <<value, space, indent, i, depth, inString, result, out>>
    /\ UNCHANGED markVars

(* if (serialized === undefined) return undefined *)
ReturnUndefined ==
    /\ pc = "serialized"
    /\ ~serialized.ok
    /\ out' = Returned(Undefined)
    /\ pc' = "done"
    /\ UNCHANGED <<value, space, serialized, indent, i, depth, inString,
                   result>>
    /\ UNCHANGED markVars

(* if (!space) return serialized *)
ReturnNoSpace ==
    /\ pc = "serialized"
    /\ serialized.ok
    /\ Falsy(space)
    /\ out' = Returned(serialized)
    /\ pc' = "done"
    /\ UNCHANGED <<value, space, serialized, indent, i, depth, inString,
                   result>>
    /\ UNCHANGED markVars

(* const indent = ...: the repeat of a negative count throws.              *)
ComputeIndent ==
    /\ pc = "serialized"
    /\ serialized.ok
    /\ ~Falsy(space)
    /\ IF RepeatThrows(space)
         THEN /\ out' = Thrown
              /\ pc' = "done"
              /\ UNCHANGED indent
         ELSE /\ indent' = IndentOf(space)
              /\ pc' = "indent"
              /\ UNCHANGED out
    /\ UNCHANGED <<value, space, serialized, i, depth, inString, result>>
    /\ UNCHANGED markVars

(* A stringify without the empty-indent return: it reflows anyway.         *)
ReturnEmptyIndent_Reflows ==
    /\ pc = "indent"
    /\ indent = <<>>
    /\ out' = Returned(Text(prettyPrint(serialized.text, indent)))
    /\ pc' = "done"
    /\ UNCHANGED <<value, space, serialized, indent, i, depth, inString,
                   result>>
    /\ UNCHANGED markVars

(* if (!indent) return serialized *)
ReturnEmptyIndent ==
    /\ pc = "indent"
    /\ indent = <<>>
    /\ out' = Returned(serialized)
    /\ pc' = "done"
    /\ UNCHANGED <<value, space, serialized, indent, i, depth, inString,
                   result>>
    /\ UNCHANGED markVars

(* return prettyPrint(serialized, indent): enter the function.             *)
CallPrettyPrint ==
    /\ pc = "indent"
    /\ indent # <<>>
    /\ SetScan(ScanStart)
    /\ pc' = "scan"
    /\ UNCHANGED <<value, space, serialized, indent, out>>
    /\ UNCHANGED markVars

ScanAt(branch) ==
    /\ pc = "scan"
    /\ i <= Len(serialized.text)
    /\ PPBranch(serialized.text, Cur) = branch

(* Inside a string: copy the character (and the one a backslash escapes). *)
ScanInString ==
    /\ ScanAt("inString")
    /\ SetScan(StepInString(serialized.text, indent, Cur))
    /\ UNCHANGED <<value, space, pc, serialized, indent, out>>
    /\ UNCHANGED markVars

(* A quote outside a string starts one. *)
ScanStartString ==
    /\ ScanAt("startString")
    /\ SetScan(StepStartString(serialized.text, indent, Cur))
    /\ UNCHANGED <<value, space, pc, serialized, indent, out>>
    /\ UNCHANGED markVars

(* An opening brace or bracket. *)
ScanOpen ==
    /\ ScanAt("open")
    /\ SetScan(StepOpen(serialized.text, indent, Cur))
    /\ UNCHANGED <<value, space, pc, serialized, indent, out>>
    /\ UNCHANGED markVars

(* A closing brace or bracket. *)
ScanClose ==
    /\ ScanAt("close")
    /\ SetScan(StepClose(serialized.text, indent, Cur))
    /\ UNCHANGED <<value, space, pc, serialized, indent, out>>
    /\ UNCHANGED markVars

(* A comma outside a string. *)
ScanComma ==
    /\ ScanAt("comma")
    /\ SetScan(StepComma(serialized.text, indent, Cur))
    /\ UNCHANGED <<value, space, pc, serialized, indent, out>>
    /\ UNCHANGED markVars

(* A colon outside a string. *)
ScanColon ==
    /\ ScanAt("colon")
    /\ SetScan(StepColon(serialized.text, indent, Cur))
    /\ UNCHANGED <<value, space, pc, serialized, indent, out>>
    /\ UNCHANGED markVars

(* Any other character outside a string. *)
ScanRegular ==
    /\ ScanAt("regular")
    /\ SetScan(StepRegular(serialized.text, indent, Cur))
    /\ UNCHANGED <<value, space, pc, serialized, indent, out>>
    /\ UNCHANGED markVars

(* The loop ends: return result.join('').                                  *)
ReturnPretty ==
    /\ pc = "scan"
    /\ i > Len(serialized.text)
    /\ out' = Returned(Text(result))
    /\ pc' = "done"
    /\ UNCHANGED <<value, space, serialized, indent, i, depth, inString,
                   result>>
    /\ UNCHANGED markVars

---------------------------------------------------------------------------
(* markAsDouble(obj, ...keys): obj is a reference into heap; one loop      *)
(* iteration per step.                                                     *)

ObjRef == 1
NoObject == [t |-> "none"]

HasKey(o, key) == \E j \in 1..Len(o.keys) : o.keys[j] = key

IndexOfKey(o, key) == CHOOSE j \in 1..Len(o.keys) : o.keys[j] = key

(* obj[key]: undefined for a key the object does not have.                 *)
GetProp(o, key) ==
    IF HasKey(o, key) THEN o.vals[IndexOfKey(o, key)]
    ELSE [t |-> "undefined"]

(* obj[key] = v: in place for an existing key, appended for a new one.     *)
SetProp(o, key, v) ==
    IF HasKey(o, key)
      THEN [o EXCEPT !.vals[IndexOfKey(o, key)] = v]
      ELSE [o EXCEPT !.keys = Append(@, key), !.vals = Append(@, v)]

(* A loop body that converts with Number(value) instead of testing the     *)
(* type: a key the object lacks is added, holding Double(NaN).             *)
MarkKey_NoTypeCheck(o, key) ==
    LET val == GetProp(o, key)
    IN  IF TypeOf(val) = "number" THEN SetProp(o, key, Double(val.n))
        ELSE IF val.t = "undefined" THEN SetProp(o, key, Double(NaN))
        ELSE o

(* The loop body for one key.                                              *)
MarkKey(o, key) ==
    LET val == GetProp(o, key)
    IN  IF TypeOf(val) = "number" THEN SetProp(o, key, Double(val.n)) ELSE o

(* The reference `return obj` gives back.                                  *)
ReturnedRef(obj) == obj

MarkStep ==
    /\ pc = "mark"
    /\ k <= Len(argKeys)
    /\ heap' = [heap EXCEPT ![ObjRef] = MarkKey(heap[ObjRef], argKeys[k])]
    /\ k' = k + 1
    /\ UNCHANGED <<argKeys, ret, calls, before, afterFirst, pc>>
    /\ UNCHANGED <<value, space, serialized, indent, i, depth, inString,
                   result, out>>

MarkReturn ==
    /\ pc = "mark"
    /\ k > Len(argKeys)
    /\ ret' = ReturnedRef(ObjRef)
    /\ calls' = calls + 1
    /\ afterFirst' = IF calls = 0 THEN heap[ObjRef] ELSE afterFirst
    /\ pc' = "returned"
    /\ UNCHANGED <<heap, argKeys, k, before>>
    /\ UNCHANGED <<value, space, serialized, indent, i, depth, inString,
                   result, out>>

(* The caller applies markAsDouble again, to the same object and keys.     *)
MarkAgain ==
    /\ pc = "returned"
    /\ calls = 1
    /\ k' = 1
    /\ ret' = 0
    /\ before' = heap[ObjRef]
    /\ pc' = "mark"
    /\ UNCHANGED <<heap, argKeys, calls, afterFirst>>
    /\ UNCHANGED <<value, space, serialized, indent, i, depth, inString,
                   result, out>>

---------------------------------------------------------------------------
(* Bounds and the inputs drawn within them.                                *)

MaxStrLen == 2     \* code units in a root string
MaxDigits == 2     \* significant digits of a number
MaxLen == 2        \* elements of a root array, members of a root object
MaxKeys == 2       \* keys passed to markAsDouble
MaxProps == 2      \* properties of the object passed to markAsDouble

SeqsUpTo(S, n) == UNION {[1..m -> S] : m \in 0..n}

Distinct(ks) == \A a, b \in 1..Len(ks) : a # b => ks[a] # ks[b]

Five == Fin(FALSE, <<5>>, 1)

DigitStrings ==
    {ds \in SeqsUpTo({0, 1, 5}, MaxDigits) :
        Len(ds) >= 1 /\ ds[1] # 0 /\ ds[Len(ds)] # 0}

(* 1e-7, 0.1, 1, 10, 1e20 (21 digits), 1e21 for the digit string <<1>>.    *)
Exponents == {-6, 0, 1, 2, 21, 22}

Numbers ==
    {NaN} \cup {Infinity(s) : s \in BOOLEAN} \cup {Zero(s) : s \in BOOLEAN}
    \cup {Fin(s, ds, e) : s \in BOOLEAN, ds \in DigitStrings, e \in Exponents}

StrChars == {QUOTE, BACKSLASH, 1, LF, LastControl, LowerA, COMMA, COLON,
             LBRACE, RBRACKET, SP}

Str(s) == [t |-> "string", s |-> s]
Num(n) == [t |-> "number", n |-> n]
Arr(items) == [t |-> "array", items |-> items]
Obj(keys, vals) == [t |-> "object", keys |-> keys, vals |-> vals]
WithToJSON(r) == [t |-> "toJSON", r |-> r]

Strings == {Str(s) : s \in SeqsUpTo(StrChars, MaxStrLen)}

Omitted == {[t |-> "undefined"], [t |-> "function"], [t |-> "symbol"]}

Scalars ==
    Omitted \cup {[t |-> "null"]} \cup {[t |-> "boolean", b |-> b] : b \in BOOLEAN}
    \cup Strings
    \cup {Num(n) : n \in Numbers}
    \cup {[t |-> "Double", n |-> n, custom |-> c] : n \in Numbers, c \in BOOLEAN}
    \cup {[t |-> "Date", y |-> 2024, mo |-> 1, d |-> 1],
          [t |-> "Date", y |-> 987, mo |-> 12, d |-> 31]}

Arrays(S, n) == {Arr(x) : x \in SeqsUpTo(S \cup {Hole}, n)}

Objects(K, S, n) ==
    UNION {{Obj(ks, vs) : vs \in [1..Len(ks) -> S]} :
             ks \in {x \in SeqsUpTo(K, n) : Distinct(x)}}

Keys == {<<LowerA>>, <<QUOTE, COLON>>}

(* Members of the composites nested inside a root composite.               *)
InnerLeaves == {[t |-> "undefined"], Num(Five), Str(<<BACKSLASH>>)}

Inner == Arrays(InnerLeaves, 1) \cup Objects(Keys, InnerLeaves, 1)

(* Members of a root composite.                                            *)
Leaves ==
    {[t |-> "undefined"], [t |-> "function"], [t |-> "null"], Num(Five),
     Double(Five), Num(NaN), Str(<<QUOTE, COMMA>>),
     WithToJSON([t |-> "undefined"])}

Members == Leaves \cup Inner

Composites == Arrays(Members, MaxLen) \cup Objects(Keys, Members, MaxLen)

Convertibles ==
    {WithToJSON(r) : r \in Omitted \cup {Num(Five), Arr(<<Double(Five)>>),
                                        WithToJSON(Str(<<LowerA>>))}}

EncodeValues == Scalars \cup Composites \cup Convertibles

(* What the pretty-printing runs are given: fewer members, every indent.   *)
PrettyMembers ==
    {[t |-> "undefined"], Num(Five), Str(<<QUOTE, COMMA>>),
     Arr(<<>>), Obj(<<>>, <<>>), Arr(<<Num(Five)>>),
     Obj(<<<<LowerA>>>>, <<Arr(<<Str(<<BACKSLASH>>)>>)>>),
     Obj(<<<<QUOTE, COLON>>>>, <<Arr(<<Arr(<<>>), Double(Five)>>)>>)}

StringifyValues ==
    Omitted \cup {[t |-> "null"], Num(Five), Double(Five), Num(Infinity(FALSE))}
    \cup Strings
    \cup Arrays(PrettyMembers, MaxLen)
    \cup Objects(Keys, PrettyMembers, MaxLen)
    \cup {WithToJSON([t |-> "undefined"]), WithToJSON(Arr(<<Num(Five)>>))}

Spaces ==
    {SpaceUndefined, SpaceNull}
    \cup {SpaceNumber(h) : h \in {-2, 0, 1, 4, 22}}
    \cup {SpaceString(s) : s \in {<<>>, <<TAB>>, <<MINUS>>, <<QUOTE>>,
                                  Repeat(<<SP, MINUS>>, 6)}}

PropValues == {Num(Five), Num(NaN), Str(<<LowerA>>), Double(Five),
               [t |-> "undefined"]}

PropKeys == {<<LowerA>>, <<98>>, <<99>>}

---------------------------------------------------------------------------
(* Specifications.                                                         *)

IdleMark ==
    /\ heap = <<>>
    /\ argKeys = <<>>
    /\ k = 0
    /\ ret = 0
    /\ calls = 0
    /\ before = NoObject
    /\ afterFirst = NoObject

IdleStringify ==
    /\ serialized = Undefined
    /\ indent = <<>>
    /\ i = 0
    /\ depth = 0
    /\ inString = FALSE
    /\ result = <<>>
    /\ out = NotYet

(* stringify(value, _, space), pretty-printing included.                   *)
Init ==
    /\ value \in StringifyValues
    /\ space \in Spaces
    /\ pc = "start"
    /\ IdleStringify
    /\ IdleMark

Next ==
    \/ Serialize
    \/ ReturnUndefined
    \/ ReturnNoSpace
    \/ ComputeIndent
    \/ ReturnEmptyIndent
    \/ CallPrettyPrint
    \/ ScanInString
    \/ ScanStartString
    \/ ScanOpen
    \/ ScanClose
    \/ ScanComma
    \/ ScanColon
    \/ ScanRegular
    \/ ReturnPretty

Spec == Init /\ [][Next]_vars

(* stringify(value): the encoder over the wider set of values.             *)
InitEncode ==
    /\ value \in EncodeValues
    /\ space = SpaceUndefined
    /\ pc = "start"
    /\ IdleStringify
    /\ IdleMark

NextEncode ==
    \/ Serialize
    \/ ReturnUndefined
    \/ ReturnNoSpace

SpecEncode == InitEncode /\ [][NextEncode]_vars

(* markAsDouble(obj, ...keys), then once more with the same keys.          *)
InitMark ==
    /\ heap \in {<<o, NoObject>> : o \in Objects(PropKeys, PropValues, MaxProps)}
    /\ argKeys \in SeqsUpTo(PropKeys, MaxKeys)
    /\ k = 1
    /\ ret = 0
    /\ calls = 0
    /\ before = heap[ObjRef]
    /\ afterFirst = NoObject
    /\ pc = "mark"
    /\ value = [t |-> "undefined"]
    /\ space = SpaceUndefined
    /\ IdleStringify

NextMark ==
    \/ MarkStep
    \/ MarkReturn
    \/ MarkAgain

SpecMark == InitMark /\ [][NextMark]_vars

---------------------------------------------------------------------------
(* What the properties are stated with: JSON's own reading of a text,      *)
(* defined from RFC 8259 and not from the scanner above.                   *)

IsWs(c) == c \in {SP, TAB, LF, CR}
IsDigit(c) == c >= ZERO /\ c <= ZERO + 9
IsHex(c) == IsDigit(c) \/ (c >= 97 /\ c <= 102) \/ (c >= 65 /\ c <= 70)

(* Reading a text for its string literals: outside any, inside one, or    *)
(* inside one just after a backslash.                                      *)
AfterChar(state, c) ==
    CASE state = "outside" -> IF c = QUOTE THEN "inside" ELSE "outside"
      [] state = "inside" -> IF c = BACKSLASH THEN "escaped"
                             ELSE IF c = QUOTE THEN "outside" ELSE "inside"
      [] OTHER -> "inside"

(* Reading one character from a state: the state after it and whether the *)
(* character lies in a string literal (its quotes included).               *)
ReadChar(state, c) ==
    [state |-> AfterChar(state, c),
     mask |-> <<state # "outside" \/ c = QUOTE>>]

(* Reading nothing.                                                        *)
ReadNone(state) == [state |-> state, mask |-> <<>>]

(* One reading after another, from a state.                                *)
ReadThen(first, second, state) ==
    [state |-> second[first[state].state].state,
     mask |-> first[state].mask \o second[first[state].state].mask]

(* The reading of t[lo..hi] from each of the three states.                 *)
RECURSIVE ReadRange(_, _, _)
ReadRange(t, lo, hi) ==
    IF lo > hi
      THEN [outside |-> ReadNone("outside"), inside |-> ReadNone("inside"),
            escaped |-> ReadNone("escaped")]
    ELSE IF lo = hi
      THEN [outside |-> ReadChar("outside", t[lo]),
            inside |-> ReadChar("inside", t[lo]),
            escaped |-> ReadChar("escaped", t[lo])]
    ELSE LET mid == (lo + hi) \div 2
             first == ReadRange(t, lo, mid)
             second == ReadRange(t, mid + 1, hi)
         IN  [outside |-> ReadThen(first, second, "outside"),
              inside |-> ReadThen(first, second, "inside"),
              escaped |-> ReadThen(first, second, "escaped")]

(* For each position of t, whether it lies in a string literal: a literal  *)
(* runs from a quote to the next unescaped quote.                          *)
LiteralMask(t) == ReadRange(t, 1, Len(t)).outside.mask

(* t without the whitespace that lies outside its string literals.         *)
StripWhitespace(t) ==
    LET m == LiteralMask(t)
    IN  Concat([p \in 1..Len(t) |->
                  IF ~m[p] /\ IsWs(t[p]) THEN <<>> ELSE <<t[p]>>])

(* Recursive descent over the RFC 8259 grammar. Each parser takes a        *)
(* position and gives the position after what it read, or 0.               *)
RECURSIVE SkipWs(_, _)
SkipWs(t, p) == IF p <= Len(t) /\ IsWs(t[p]) THEN SkipWs(t, p + 1) ELSE p

RECURSIVE SkipDigits(_, _)
SkipDigits(t, p) ==
    IF p <= Len(t) /\ IsDigit(t[p]) THEN SkipDigits(t, p + 1) ELSE p

HasPrefixAt(t, p, w) ==
    p + Len(w) - 1 <= Len(t) /\ SubSeq(t, p, p + Len(w) - 1) = w

(* number = [ minus ] int [ frac ] [ exp ] *)
ParseNumber(t, p) ==
    LET a == IF CharAt(t, p) = MINUS THEN p + 1 ELSE p
        b == IF CharAt(t, a) = ZERO THEN a + 1
             ELSE IF IsDigit(CharAt(t, a)) THEN SkipDigits(t, a) ELSE 0
        c == IF b = 0 THEN 0
             ELSE IF CharAt(t, b) = DOT
               THEN (IF IsDigit(CharAt(t, b + 1)) THEN SkipDigits(t, b + 1)
                     ELSE 0)
             ELSE b
        d == IF c = 0 THEN 0
             ELSE IF CharAt(t, c) \in {LowerE, 69}
               THEN LET q == IF CharAt(t, c + 1) \in {PLUS, MINUS}
                               THEN c + 2 ELSE c + 1
                    IN  IF IsDigit(CharAt(t, q)) THEN SkipDigits(t, q) ELSE 0
             ELSE c
    IN  d

(* The characters of a string after its opening quote.                     *)
RECURSIVE ParseChars(_, _)
ParseChars(t, p) ==
    LET c == CharAt(t, p)
    IN  IF c = -1 THEN 0
        ELSE IF c = QUOTE THEN p + 1
        ELSE IF c = BACKSLASH
          THEN LET x == CharAt(t, p + 1)
               IN  IF x \in {QUOTE, BACKSLASH, 47, 98, 102, 110, 114, 116}
                     THEN ParseChars(t, p + 2)
                   ELSE IF x = LowerU
                           /\ \A j \in 2..5 : IsHex(CharAt(t, p + j))
                     THEN ParseChars(t, p + 6)
                   ELSE 0
        ELSE IF c < SP THEN 0
        ELSE ParseChars(t, p + 1)

ParseString(t, p) == IF CharAt(t, p) = QUOTE THEN ParseChars(t, p + 1) ELSE 0

RECURSIVE ParseValue(_, _)
RECURSIVE ParseElements(_, _)
RECURSIVE ParseMembers(_, _)

(* value *( "," value ) "]", from the position of a value.                 *)
ParseElements(t, p) ==
    LET a == ParseValue(t, p)
        b == IF a = 0 THEN 0 ELSE SkipWs(t, a)
    IN  IF b = 0 THEN 0
        ELSE IF CharAt(t, b) = RBRACKET THEN b + 1
        ELSE IF CharAt(t, b) = COMMA THEN ParseElements(t, SkipWs(t, b + 1))
        ELSE 0

(* member *( "," member ) "}", from the position of a member's name.       *)
ParseMembers(t, p) ==
    LET a == ParseString(t, p)
        b == IF a = 0 THEN 0 ELSE SkipWs(t, a)
        c == IF b = 0 \/ CharAt(t, b) # COLON THEN 0
             ELSE ParseValue(t, SkipWs(t, b + 1))
        d == IF c = 0 THEN 0 ELSE SkipWs(t, c)
    IN  IF d = 0 THEN 0
        ELSE IF CharAt(t, d) = RBRACE THEN d + 1
        ELSE IF CharAt(t, d) = COMMA THEN ParseMembers(t, SkipWs(t, d + 1))
        ELSE 0

ParseValue(t, p) ==
    LET c == CharAt(t, p)
    IN  IF HasPrefixAt(t, p, T_null) THEN p + Len(T_null)
        ELSE IF HasPrefixAt(t, p, T_true) THEN p + Len(T_true)
        ELSE IF HasPrefixAt(t, p, T_false) THEN p + Len(T_false)
        ELSE IF c = QUOTE THEN ParseString(t, p)
        ELSE IF c = LBRACKET
          THEN LET q == SkipWs(t, p + 1)
               IN  IF CharAt(t, q) = RBRACKET THEN q + 1
                   ELSE ParseElements(t, q)
        ELSE IF c = LBRACE
          THEN LET q == SkipWs(t, p + 1)
               IN  IF CharAt(t, q) = RBRACE THEN q + 1
                   ELSE ParseMembers(t, q)
        ELSE ParseNumber(t, p)

(* JSON-text = ws value ws *)
IsJsonText(t) ==
    LET a == ParseValue(t, SkipWs(t, 1))
    IN  a # 0 /\ SkipWs(t, a) = Len(t) + 1

(* One number token and nothing else.                                      *)
IsNumberToken(t) == Len(t) > 0 /\ ParseNumber(t, 1) = Len(t) + 1

---------------------------------------------------------------------------
(* Properties.                                                             *)

json == serialized.text

(* stringify has returned what prettyPrint produced.                       *)
Reflowed == pc = "done" /\ out.kind = "string" /\ indent # <<>>

IsPrefix(a, b) == Len(a) <= Len(b) /\ SubSeq(b, 1, Len(a)) = a

EndsWith(t, w) == Len(w) <= Len(t) /\ SubSeq(t, Len(t) - Len(w) + 1, Len(t)) = w

(* C1: prettyPrint never alters characters inside string literals. Every   *)
(* step of the scan only appends to the output, and a step that consumes   *)
(* characters of a string literal of the input (quotes, escapes and        *)
(* structural characters inside it alike) appends exactly those characters *)
(* and nothing else, whatever the indent unit is: so each literal arrives  *)
(* in the output in one piece, character for character.                    *)
C1_LiteralsCopiedVerbatim ==
    [][(pc = "scan" /\ pc' = "scan")
         => /\ i' > i
            /\ IsPrefix(result, result')
            /\ (\E p \in i..(i' - 1) : LiteralMask(json)[p])
                 => result' = result \o SubSeq(json, i, i' - 1)]_vars

(* C1 witness: a reflowed object whose text holds a literal with an        *)
(* escaped quote and a literal with a comma inside it.                     *)
C1_Witness ==
    /\ Reflowed
    /\ json[1] = LBRACE
    /\ \E p \in 1..(Len(json) - 1) : json[p] = BACKSLASH /\ json[p + 1] = QUOTE
    /\ \E p \in 1..Len(json) : LiteralMask(json)[p] /\ json[p] = COMMA
    /\ out.text # json

IndentIsWhitespace == \A p \in 1..Len(indent) : IsWs(indent[p])

(* C2 as claimed: for any indent unit, the reflowed text without the       *)
(* whitespace outside its string literals is the minified text.            *)
C2_RoundTripAnyIndent ==
    Reflowed => StripWhitespace(out.text) = json

(* C2 as amended: the same, for an indent unit made only of JSON           *)
(* whitespace (space, tab, line feed, carriage return).                    *)
C2_RoundTripWhitespaceIndent ==
    (Reflowed /\ IndentIsWhitespace) => StripWhitespace(out.text) = json

(* C2 witness: a composite reflowed with a whitespace indent.              *)
C2_Witness ==
    /\ Reflowed
    /\ IndentIsWhitespace
    /\ Len(json) > 2
    /\ json[1] \in {LBRACE, LBRACKET}
    /\ out.text # json
    /\ StripWhitespace(out.text) = json

(* The space parameters for which stringify's indent unit is empty: none,  *)
(* null, a count that truncates to 0 without being negative enough to make *)
(* repeat throw, or the empty string.                                      *)
GivesEmptyIndent(sp) ==
    \/ sp.t \in {"undefined", "null"}
    \/ sp.t = "number" /\ sp.halves > -2 /\ sp.halves < 2
    \/ sp.t = "string" /\ sp.s = <<>>

(* A scalar token or an empty composite: a text with nothing to reflow.    *)
NothingToReflow(t) == t[1] \notin {LBRACE, LBRACKET} \/ Len(t) = 2

(* C3 as claimed: prettyPrint with the empty indent unit gives back the    *)
(* minified text.                                                          *)
C3_ReflowEmptyIndentIsIdentity ==
    (pc # "start" /\ serialized.ok) => prettyPrint(json, <<>>) = json

(* C3 as amended: minification is kept by stringify, which returns the     *)
(* minified text without running prettyPrint whenever the space parameter  *)
(* gives the empty indent unit; prettyPrint itself, given the empty indent *)
(* unit, returns the minified text only when it is a scalar token or an    *)
(* empty composite.                                                        *)
C3_EmptyIndentBypassesReflow ==
    /\ (pc = "done" /\ serialized.ok /\ GivesEmptyIndent(space))
         => /\ out.kind = "string"
            /\ out.text = json
            /\ result = <<>>
    /\ (pc # "start" /\ serialized.ok)
         => (prettyPrint(json, <<>>) = json <=> NothingToReflow(json))

(* C3 witness: a non-empty object stringified with space 0.5, which is     *)
(* truthy and gives the empty indent unit.                                 *)
C3_Witness ==
    /\ pc = "done"
    /\ space.t = "number" /\ space.halves = 1
    /\ serialized.ok
    /\ Len(json) > 2
    /\ json[1] = LBRACE
    /\ out.text = json

(* The values C4 speaks of: built from null, booleans, strings, plain and  *)
(* Decimal-Marked numbers, dense sequences and mappings.                   *)
RECURSIVE PlainData(_)
PlainData(v) ==
    CASE v.t \in {"null", "boolean", "string", "number"} -> TRUE
      [] v.t = "Double" -> ~v.custom
      [] v.t = "array" ->
         \A j \in 1..Len(v.items) :
            ~IsHole(v.items[j]) /\ PlainData(v.items[j])
      [] v.t = "object" -> \A j \in 1..Len(v.vals) : PlainData(v.vals[j])
      [] OTHER -> FALSE

(* C4: every text the encoder returns for such a value is valid per the    *)
(* RFC 8259 grammar, and the token of a Decimal-Marked integral number is  *)
(* a JSON number token.                                                    *)
C4_OutputIsValidJson ==
    (pc # "start" /\ serialized.ok /\ PlainData(value))
      => /\ IsJsonText(json)
         /\ (value.t = "Double" /\ isFinite(value.n)) => IsNumberToken(json)

(* The text a plain number encodes to.                                     *)
PlainText(n) == serializeValue(Num(n)).text

(* C5: a Decimal-Marked number encodes to null when not finite, to the     *)
(* plain number text followed by .0 when integral and to the plain number  *)
(* text otherwise, also when the wrapper carries a toJSON method (the      *)
(* marker is checked before the Date, toJSON and generic-object branches); *)
(* a plain number is never given a forced .0.                              *)
C5_DoubleRendering ==
    /\ (pc # "start" /\ value.t = "Double")
         => /\ serialized.ok
            /\ json = (IF value.n.cls \in {"nan", "inf"} THEN T_null
                       ELSE IF value.n.cls = "zero"
                               \/ value.n.e >= Len(value.n.digits)
                         THEN PlainText(value.n) \o <<DOT, ZERO>>
                       ELSE PlainText(value.n))
    /\ (pc # "start" /\ value.t = "number")
         => /\ serialized.ok
            /\ ~EndsWith(json, <<DOT, ZERO>>)
            /\ json = (IF value.n.cls \in {"nan", "inf"} THEN T_null
                       ELSE NumberToString(value.n))

(* C5 witness: an integral Double whose wrapper also has a toJSON method   *)
(* has been encoded with the forced .0.                                    *)
C5_Witness ==
    /\ pc = "done"
    /\ value.t = "Double"
    /\ value.custom
    /\ value.n.cls = "fin"
    /\ EndsWith(json, <<DOT, ZERO>>)

(* C6: stringify returns undefined exactly when the encoder omits the      *)
(* root value, and a string in every other case (so null and non-finite    *)
(* numbers give the text null, and a composite with omitted members still  *)
(* gives a string).                                                        *)
C6_UndefinedOnlyForOmittedRoot ==
    pc = "done"
      => /\ out.kind = "undefined" <=> Branch(value) \in {"omit", "fallback"}
                                       \/ (Branch(value) = "toJSON"
                                           /\ ~serializeValue(value).ok)
         /\ out.kind # "undefined" => out.kind = "string"
         /\ (value.t = "null" \/ (value.t = "number" /\ ~isFinite(value.n)))
              => out.kind = "string" /\ StripWhitespace(out.text) = T_null

(* The indent unit the space parameter stands for: a count gives that many *)
(* spaces, at least 0 and at most 10; a string gives its first 10          *)
(* characters.                                                             *)
NormalizedIndent(sp) ==
    CASE sp.t = "number" ->
         Repeat(<<SP>>, IF sp.halves < 0 THEN 0
                        ELSE IF sp.halves > 20 THEN 10 ELSE sp.halves \div 2)
      [] sp.t = "string" -> SubSeq(sp.s, 1, Min(Len(sp.s), 10))
      [] OTHER -> <<>>

(* C7: for every value that encodes to text and every space parameter,     *)
(* stringify returns text: the minified text when the indent unit is       *)
(* empty, else prettyPrint of it with the normalized indent unit, which is *)
(* never longer than 10 characters.                                        *)
C7_IndentNormalization ==
    (pc = "done" /\ serialized.ok)
      => /\ out.kind = "string"
         /\ Len(NormalizedIndent(space)) <= 10
         /\ out.text = (IF NormalizedIndent(space) = <<>> THEN json
                        ELSE prettyPrint(json, NormalizedIndent(space)))

Listed(key) == \E j \in 1..Len(argKeys) : argKeys[j] = key

(* C8: when markAsDouble returns, it returns the object it was given; the  *)
(* object has the keys it had, in the same order, and no others; a listed  *)
(* key that held a plain number holds a Double of the same number; every   *)
(* other property holds what it held; and a second call with the same keys *)
(* leaves the object as the first call left it.                            *)
C8_MarkFrame ==
    pc = "returned"
      => LET o == heap[ObjRef]
         IN  /\ ret = ObjRef
             /\ heap[2] = NoObject
             /\ o.keys = before.keys
             /\ Len(o.vals) = Len(before.vals)
             /\ \A j \in 1..Len(before.keys) :
                   o.vals[j] =
                     IF Listed(before.keys[j]) /\ before.vals[j].t = "number"
                       THEN [t |-> "Double", n |-> before.vals[j].n,
                             custom |-> FALSE]
                       ELSE before.vals[j]
             /\ calls = 2 => o = afterFirst

(* C8 witness: a call has returned that marked a number, was given a key   *)
(* the object lacks, and left another property alone.                      *)
C8_Witness ==
    /\ pc = "returned"
    /\ calls = 1
    /\ \E j \in 1..Len(before.keys) :
          Listed(before.keys[j]) /\ before.vals[j].t = "number"
    /\ \E j \in 1..Len(argKeys) : ~HasKey(before, argKeys[j])
    /\ \E j \in 1..Len(before.keys) : heap[ObjRef].vals[j] = before.vals[j]

(* The text C9 expects of a member: null for one that has no text (an      *)
(* absent element of a sparse array included).                             *)
ElementText(x) ==
    IF IsHole(x) \/ ~serializeValue(x).ok THEN T_null
    ELSE serializeValue(x).text

RECURSIVE CommaJoined(_)
CommaJoined(texts) ==
    IF texts = <<>> THEN <<>>
    ELSE IF Len(texts) = 1 THEN texts[1]
    ELSE texts[1] \o <<COMMA>> \o CommaJoined(Tail(texts))

Kept(v) == SelectSeq([j \in 1..Len(v.keys) |-> j],
                     LAMBDA j : serializeValue(v.vals[j]).ok)

(* C9: a sequence of length k encodes to exactly k comma-joined element    *)
(* texts in order, null standing for every element without a text; a       *)
(* mapping encodes to the pairs of the keys whose values have a text, in   *)
(* definition order; neither is ever omitted itself.                       *)
C9_OmitHandling ==
    /\ (pc # "start" /\ value.t = "array")
         => /\ serialized.ok
            /\ json = <<LBRACKET>>
                      \o CommaJoined([j \in 1..Len(value.items) |->
                                        ElementText(value.items[j])])
                      \o <<RBRACKET>>
    /\ (pc # "start" /\ value.t = "object")
         => /\ serialized.ok
            /\ json = <<LBRACE>>
                      \o CommaJoined([m \in 1..Len(Kept(value)) |->
                            Quoted(escapeString(value.keys[Kept(value)[m]]))
                            \o <<COLON>>
                            \o serializeValue(value.vals[Kept(value)[m]]).text])
                      \o <<RBRACE>>

LevelChange(t, m, p) ==
    IF m[p] THEN 0
    ELSE IF t[p] \in {LBRACE, LBRACKET} THEN 1
    ELSE IF t[p] \in {RBRACE, RBRACKET} THEN -1
    ELSE 0

(* The nesting level after each position of t[lo..hi], counted from zero   *)
(* before lo, over the braces and brackets outside string literals.        *)
RECURSIVE LevelsRange(_, _, _, _)
LevelsRange(t, m, lo, hi) ==
    IF lo > hi THEN <<>>
    ELSE IF lo = hi THEN <<LevelChange(t, m, lo)>>
    ELSE LET mid == (lo + hi) \div 2
             first == LevelsRange(t, m, lo, mid)
             second == LevelsRange(t, m, mid + 1, hi)
         IN  first \o [q \in 1..Len(second) |->
                         first[Len(first)] + second[q]]

Levels(t) == LevelsRange(t, LiteralMask(t), 1, Len(t))

(* With m the literal mask of t and lv its levels.                         *)
OpenerAt(t, m, p) == ~m[p] /\ t[p] \in {LBRACE, LBRACKET}
CloserAt(t, m, p) == ~m[p] /\ t[p] \in {RBRACE, RBRACKET}

(* The closer that matches the opener at p: the first one after p that     *)
(* brings the level back below the opener's.                               *)
MatchAt(t, m, lv, p) ==
    LET qs == {q \in (p + 1)..Len(t) : CloserAt(t, m, q) /\ lv[q] = lv[p] - 1}
    IN  CHOOSE q \in qs : \A r \in qs : q <= r

IsOpener(t, p) == OpenerAt(t, LiteralMask(t), p)
IsCloser(t, p) == CloserAt(t, LiteralMask(t), p)
MatchOf(t, p) == MatchAt(t, LiteralMask(t), Levels(t), p)

(* The composites open after the first n characters that are not empty.    *)
OpenNonEmpty(t, n) ==
    LET m == LiteralMask(t)
        lv == Levels(t)
    IN  Cardinality({p \in 1..n : /\ OpenerAt(t, m, p)
                                  /\ MatchAt(t, m, lv, p) > n
                                  /\ MatchAt(t, m, lv, p) # p + 1})

(* The scan is running, or has just ended.                                 *)
Scanning == pc = "scan" \/ Reflowed

(* C10: at every step of the scan depth is non-negative and is the number  *)
(* of open non-empty composites; the newline emitted for a comma, a        *)
(* non-empty opener or a non-empty closer is followed by exactly depth     *)
(* indent units; an empty composite is emitted as its two characters, with *)
(* depth unchanged; and the scan ends with depth 0 outside any string.     *)
C10_DepthInvariant ==
    Scanning
      => LET n == i - 1
             c == CharAt(json, n)
             structural == n >= 1 /\ ~LiteralMask(json)[n]
             emptyOpen == structural /\ IsOpener(json, n)
                          /\ MatchOf(json, n) = n + 1
             emptyClose == structural /\ IsCloser(json, n) /\ n >= 2
                           /\ IsOpener(json, n - 1)
         IN  /\ depth >= 0
             /\ depth = OpenNonEmpty(json, n)
             /\ (structural /\ c = COMMA)
                  => EndsWith(result, <<COMMA, LF>> \o Repeat(indent, depth))
             /\ (structural /\ IsOpener(json, n) /\ ~emptyOpen)
                  => EndsWith(result, <<c, LF>> \o Repeat(indent, depth))
             /\ (structural /\ IsCloser(json, n) /\ ~emptyClose)
                  => EndsWith(result, <<LF>> \o Repeat(indent, depth) \o <<c>>)
             /\ emptyOpen => EndsWith(result, <<c>>)
             /\ emptyClose => EndsWith(result, <<json[n - 1], c>>)
             /\ n = Len(json) => depth = 0 /\ ~inString

(* C10 witness: the scan stands at depth 2 after an empty composite.       *)
C10_Witness ==
    /\ pc = "scan"
    /\ depth = 2
    /\ \E p \in 1..(i - 2) :
          IsOpener(json, p) /\ MatchOf(json, p) = p + 1

====
